---------------------------- MODULE Spec2Model ----------------------------
(***************************************************************************)
(* A model of LPR-stations-data-viewer (src/source/main.py): the transport *)
(* client get_json, term discovery get_terms / set_terms, the              *)
(* reconciliation pass get_measurements with format_unit, and the          *)
(* scheduling of passes by MainWindow (create_worker, update_data,         *)
(* update_table_values, the timers and the term box).                      *)
(*                                                                         *)
(* The specifications share the variables:                                 *)
(*   SpecMeas   one call of get_measurements, one record at a time;        *)
(*   SpecTerms  one call of set_terms, one page request at a time;         *)
(*   SpecFmt    one call of format_unit;                                   *)
(*   SpecTypes  one call of get_measurements_types, a request at a time;   *)
(*   Spec       the window: GUI thread, timers and worker threads.         *)
(* FairSpec is Spec with the fairness the Qt event loop and the thread     *)
(* pool give: an armed timer fires, a started worker runs on.              *)
(***************************************************************************)
EXTENDS Integers, Sequences, FiniteSets, TLC

(***************************************************************************)
(* Decimal numbers.  A value of decimal.Decimal is a sign, a coefficient   *)
(* and an exponent; scale is the number of fractional digits (Python's     *)
(* exponent, negated).  The inputs of the model have at most two           *)
(* fractional digits and no exponent part, so str() never switches to      *)
(* scientific notation.                                                    *)
(***************************************************************************)
Digits == {"0", "1", "2", "3", "4", "5", "6", "7", "8", "9"}

DigitVal(c) ==
    CASE c = "0" -> 0 [] c = "1" -> 1 [] c = "2" -> 2 [] c = "3" -> 3
      [] c = "4" -> 4 [] c = "5" -> 5 [] c = "6" -> 6 [] c = "7" -> 7
      [] c = "8" -> 8 [] c = "9" -> 9

RECURSIVE DigitsToNat(_)
DigitsToNat(s) ==
    IF s = <<>> THEN 0
    ELSE 10 * DigitsToNat(SubSeq(s, 1, Len(s) - 1)) + DigitVal(s[Len(s)])

\* The characters of raw after an optional sign.
Unsigned(raw) ==
    IF raw # <<>> /\ raw[1] \in {"-", "+"} THEN Tail(raw) ELSE raw

\* Whether Decimal(raw) parses: digits with at most one point and at least
\* one digit.  Otherwise Decimal() raises InvalidOperation.
IsDecimalSyntax(raw) ==
    LET body == Unsigned(raw)
        dots == {i \in 1..Len(body) : body[i] = "."}
    IN  /\ Cardinality(dots) <= 1
        /\ \A i \in (1..Len(body)) \ dots : body[i] \in Digits
        /\ Len(body) - Cardinality(dots) >= 1

\* Decimal(raw) for a raw that parses.
Decimal(raw) ==
    LET body == Unsigned(raw)
        dots == {i \in 1..Len(body) : body[i] = "."}
        dot  == IF dots = {} THEN Len(body) + 1 ELSE CHOOSE i \in dots : TRUE
        ds   == SubSeq(body, 1, dot - 1) \o SubSeq(body, dot + 1, Len(body))
    IN  [sign  |-> (raw[1] = "-"),
         coef  |-> DigitsToNat(ds),
         scale |-> Len(body) - dot + (IF dots = {} THEN 1 ELSE 0)]

Signed(d) == IF d.sign THEN 0 - d.coef ELSE d.coef

Max(a, b) == IF a >= b THEN a ELSE b

\* x - Decimal('273.15')
SubKelvin(x) ==
    LET s == Max(x.scale, 2)
        v == Signed(x) * 10^(s - x.scale) - 27315 * 10^(s - 2)
    IN  [sign |-> (v < 0), coef |-> (IF v < 0 THEN 0 - v ELSE v), scale |-> s]

\* x / 100: the quotient is exact; its exponent is brought back towards the
\* dividend's as far as the coefficient's trailing zeros allow.
Div100(x) ==
    IF x.coef % 100 = 0 THEN [x EXCEPT !.coef = x.coef \div 100]
    ELSE IF x.coef % 10 = 0
         THEN [x EXCEPT !.coef = x.coef \div 10, !.scale = x.scale + 1]
         ELSE [x EXCEPT !.scale = x.scale + 2]

\* round towards zero in the place of half to even.
RoundDecimal_Truncate(x, prec) ==
    IF x.scale <= prec
    THEN [x EXCEPT !.coef = x.coef * 10^(prec - x.scale), !.scale = prec]
    ELSE [x EXCEPT !.coef = x.coef \div 10^(x.scale - prec), !.scale = prec]

\* round(x, prec) of a Decimal: quantize to prec fractional digits, rounding
\* half to even (the default context).
RoundDecimal(x, prec) ==
    IF x.scale <= prec
    THEN [x EXCEPT !.coef = x.coef * 10^(prec - x.scale), !.scale = prec]
    ELSE LET d == 10^(x.scale - prec)
             q == x.coef \div d
             r == x.coef % d
             up == (2 * r > d) \/ (2 * r = d /\ q % 2 = 1)
         IN  [x EXCEPT !.coef = (IF up THEN q + 1 ELSE q), !.scale = prec]

RECURSIVE FracStr(_, _)
FracStr(f, n) ==
    IF n = 0 THEN "" ELSE FracStr(f \div 10, n - 1) \o ToString(f % 10)

\* str(x) of a Decimal, as f'{x}' gives it.
DecimalStr(x) ==
    (IF x.sign THEN "-" ELSE "")
      \o ToString(x.coef \div 10^x.scale)
      \o (IF x.scale = 0 THEN ""
          ELSE "." \o FracStr(x.coef % 10^x.scale, x.scale))

(***************************************************************************)
(* A value in get_measurements is a Decimal or the string '---'.           *)
(***************************************************************************)
NoData == "---"

Num(d) == [isnum |-> TRUE, dec |-> d]
NoDataValue == [isnum |-> FALSE, dec |-> [sign |-> FALSE, coef |-> 0, scale |-> 0]]

(***************************************************************************)
(* convert_table.  The Cyrillic unit names are transliterated: "gPa" is    *)
(* the hectopascal unit, "m_ru" the metre.                                 *)
(***************************************************************************)
ConvEntries ==
    {<<"k", "C">>, <<"pa", "gPa">>, <<"m", "m_ru">>}

\* The entries whose function is `lambda x: x`.
IdentityEntries == {<<"m", "m_ru">>}

\* table[base][target] exists
InTable(base, target) == <<base, target>> \in ConvEntries

\* table[base][target](value); ok is FALSE when the lambda raises TypeError
\* (arithmetic on the string '---').
ApplyConv(base, target, value) ==
    CASE <<base, target>> = <<"k", "C">> ->
            IF value.isnum THEN [ok |-> TRUE, res |-> Num(SubKelvin(value.dec))]
            ELSE [ok |-> FALSE, res |-> value]
      [] <<base, target>> = <<"pa", "gPa">> ->
            IF value.isnum THEN [ok |-> TRUE, res |-> Num(Div100(value.dec))]
            ELSE [ok |-> FALSE, res |-> value]
      [] OTHER -> [ok |-> TRUE, res |-> value]

\* f'{res}'
Fmt(res) == IF res.isnum THEN DecimalStr(res.dec) ELSE NoData

NoPrec == -1

\* format_unit(value, base, target, prec): exc is "TypeError" when the call
\* raises, and then text is unused.
format_unit(value, base, target, prec) ==
    LET conv == IF InTable(base, target)
                THEN ApplyConv(base, target, value)
                ELSE [ok |-> TRUE, res |-> value]
    IN  IF ~conv.ok THEN [exc |-> "TypeError", text |-> ""]
        ELSE IF prec # NoPrec
             THEN IF conv.res.isnum
                  THEN [exc |-> "none",
                        text |-> DecimalStr(RoundDecimal(conv.res.dec, prec))]
                  ELSE [exc |-> "TypeError", text |-> ""]
             ELSE [exc |-> "none", text |-> Fmt(conv.res)]


(***************************************************************************)
(* Configuration (settings.ini, read at import and in get_servers and      *)
(* get_stations).  Two servers with one station each; a station identifier *)
(* is the decimal string of the number given here.                         *)
(***************************************************************************)
SERVERS == <<"s1", "s2">>

server_stations == ("s1" :> <<9>>) @@ ("s2" :> <<10>>)

Stations ==
    UNION { {server_stations[s][i] : i \in 1..Len(server_stations[s])} :
              s \in DOMAIN server_stations }

\* wanted_unit.get(unit, unit)
wanted_unit(unit) ==
    CASE unit = "k" -> "C"
      [] unit = "pa" -> "gPa"
      [] unit = "m" -> "m_ru"
      [] OTHER -> unit

\* The (server, station) pairs in the order the two nested loops of
\* get_measurements visit them.
RECURSIVE VisitsFrom(_)
VisitsFrom(i) ==
    IF i > Len(SERVERS) THEN <<>>
    ELSE [j \in 1..Len(server_stations[SERVERS[i]]) |->
             [server |-> SERVERS[i], station |-> server_stations[SERVERS[i]][j]]]
         \o VisitsFrom(i + 1)

Visits == VisitsFrom(1)

(***************************************************************************)
(* Inputs: what a server may answer.                                       *)
(***************************************************************************)
MaxId == 2
MaxRecords == 3

Codes == {"12001"}

\* (unit, raw value) of a record; the raw value is the characters of the
\* JSON string.
Payloads ==
    { <<"k", <<"3", "0", "0", ".", "0", "0">> >>,
      <<"pa", <<"1", "0", "1", "3", "2", "5">> >>,
      <<"m", <<>> >>,
      <<"k", <<>> >> }

Records ==
    { [id |-> i, code |-> c, unit |-> p[1], value |-> p[2]] :
        i \in 1..MaxId, c \in Codes, p \in Payloads }

SeqsUpTo(S, n) == UNION { [1..k -> S] : k \in 0..n }

(***************************************************************************)
(* get_json.  The outcome of requests.get(url, timeout=1).json() is a      *)
(* decoded body or an exception of the requests library; ConnectTimeout    *)
(* is a subclass of ConnectionError.                                       *)
(***************************************************************************)
FailureKinds == {"ConnectionError", "ConnectTimeout", "ReadTimeout", "JSONDecodeError"}

\* A subclass is not matched by its base class.
IsInstance_Exact(kind, cls) == kind = cls

IsInstance(kind, cls) ==
    kind = cls \/ (kind = "ConnectTimeout" /\ cls = "ConnectionError")

\* The except clause without JSONDecodeError.
Caught_NoJSONDecodeError == {"ConnectionError", "ReadTimeout"}

\* The classes of the except clause.
Caught == {"JSONDecodeError", "ConnectionError", "ReadTimeout"}

\* get_json with ReadTimeout missing from the except clause.
get_json_NoReadTimeout(o) ==
    IF o.kind = "ok" THEN [exc |-> "none", val |-> o.body]
    ELSE IF \E cls \in Caught \ {"ReadTimeout"} : IsInstance(o.kind, cls)
         THEN [exc |-> "none", val |-> <<>>]
         ELSE [exc |-> o.kind, val |-> <<>>]

\* get_json on a request whose outcome is o: the list returned, or the
\* exception that leaves it.
get_json(o) ==
    IF o.kind = "ok" THEN [exc |-> "none", val |-> o.body]
    ELSE IF \E cls \in Caught : IsInstance(o.kind, cls)
         THEN [exc |-> "none", val |-> <<>>]
         ELSE [exc |-> o.kind, val |-> <<>>]

Outcomes(n) ==
    { [kind |-> "ok", body |-> b] : b \in SeqsUpTo(Records, n) }
      \cup { [kind |-> k, body |-> <<>>] : k \in FailureKinds }

(***************************************************************************)
(* get_measurements: the body of the loop over the rows of a response.     *)
(* st is [ready, meas, exc]: ready and meas are the dictionaries, keyed by *)
(* <<code, station>>, and exc the exception the body raised.               *)
(***************************************************************************)
EmptyDict == <<>>

EmptyPass == [ready |-> EmptyDict, meas |-> EmptyDict, exc |-> "none"]

Put(d, k, v) == [x \in (DOMAIN d) \cup {k} |-> IF x = k THEN v ELSE d[x]]

\* prev defaulting to 0 in the place of float('inf').
Skipped_DefaultZero(ready, key, id) ==
    (IF key \in DOMAIN ready THEN ready[key] ELSE 0) < id

\* if prev < _id: continue      (prev defaults to float('inf'))
Skipped(ready, key, id) == key \in DOMAIN ready /\ ready[key] < id

\* Lines 128-137: the text of a record, or the exception.
RecordText(r) ==
    LET value == IF IsDecimalSyntax(r.value) THEN Num(Decimal(r.value))
                 ELSE NoDataValue
        wu == wanted_unit(r.unit)
    IN  IF wu = "C" THEN format_unit(value, r.unit, wu, 1)
        ELSE format_unit(value, r.unit, wu, NoPrec)

ProcessRecord(st, station, r) ==
    LET key == <<r.code, station>>
        t == RecordText(r)
    IN  IF Skipped(st.ready, key, r.id) THEN st
        ELSE IF t.exc # "none"
             THEN [st EXCEPT !.ready = Put(st.ready, key, r.id), !.exc = t.exc]
             ELSE [st EXCEPT !.ready = Put(st.ready, key, r.id),
                             !.meas = Put(st.meas, key, t.text)]

\* The loop over rows, each given as [station, rec]; it stops at the first
\* exception.
RECURSIVE Reconcile(_, _)
Reconcile(st, rows) ==
    IF rows = <<>> \/ st.exc # "none" THEN st
    ELSE Reconcile(ProcessRecord(st, rows[1].station, rows[1].rec), Tail(rows))

(***************************************************************************)
(* One call of get_measurements, a record at a time.                       *)
(*   mpc      "fetch": about to call get_json for Visits[mpos];            *)
(*            "rows": iterating over resp at index ri;                     *)
(*            "done": returned meas; "raised": left by exception mexc      *)
(*   net      the outcome of the last request                              *)
(*   arrived  history: the rows processed so far, in order                 *)
(*   mfailed  history: the positions in Visits whose request failed        *)
(***************************************************************************)
VARIABLES mpc, mpos, net, resp, ri, ready, meas, mexc, arrived, mfailed

measVars == <<mpc, mpos, net, resp, ri, ready, meas, mexc, arrived, mfailed>>

(***************************************************************************)
(* The window (MainWindow) and its threads.                                *)
(*   terms      self.terms                                                 *)
(*   boxItems   the items of self.term_box, each given by its term         *)
(*   boxIndex   self.term_box.currentIndex(), -1 when nothing is current   *)
(*   connected  currentIndexChanged is connected to create_worker          *)
(*   gui        where the GUI thread is: "idle" in the event loop, or in   *)
(*              set_terms: "cleared" (in get_terms), "adding" (addItem)    *)
(*   workers    the Worker runnables handed to the thread pool and not yet *)
(*              finished                                                   *)
(*   timers     the single-shot timers armed on create_worker              *)
(*   table      the items of self.table, by (row, column)                  *)
(*   cellBy     history: the pass that wrote each item (0: none yet)       *)
(*   aborted    history: the last pass to end ended on IndexError and no   *)
(*              pass was started since                                     *)
(* and of get_terms:                                                       *)
(*   tsrv       the index in SERVERS of the server being scanned           *)
(*   last_id    last_id                                                    *)
(*   tset       the set terms                                              *)
(*   tpage      history: the non-empty pages the server has answered       *)
(*   tresp      the rows of resp the loop has still to read                *)
(*   tseen      history: every point_at the servers have returned          *)
(*   treq       history: the requests sent to each server in this scan     *)
(*   tclosed    history: the servers whose request failed or was answered  *)
(*              with an empty page                                         *)
(*   tmax       history: the greatest id among the rows read of the batch  *)
(*              (0: no row read since the last request)                    *)
(*   tsent      history: the lastid of the last request to server tsrv     *)
(***************************************************************************)
VARIABLES terms, boxItems, boxIndex, connected, gui, workers, timers, table,
          cellBy, aborted

VARIABLES tsrv, last_id, tset, tpage, tresp, tseen, treq, tclosed, tmax, tsent

winVars == <<terms, boxItems, boxIndex, connected, gui, workers, timers, table,
             cellBy, aborted>>

scanVars == <<tsrv, last_id, tset, tpage, tresp, tseen, treq, tclosed,
              tmax, tsent>>

(***************************************************************************)
(* A call of format_unit on its own.                                       *)
(*   fpc   "idle": no call; "call": called with fin; "ret": returned fout  *)
(*   fin   the arguments [value, base, target, prec]                       *)
(*   fout  what the call gave, [exc, text]                                 *)
(***************************************************************************)
VARIABLES fpc, fin, fout

fmtVars == <<fpc, fin, fout>>

(***************************************************************************)
(* get_measurements_types: the catalog of measurement types.               *)
(*   gpc        "idle": not called; "taking": about to ask station_taking  *)
(*              for station gst of server gsrv; "defs": about to ask the   *)
(*              server's measurement.json; "done"; "raised"                *)
(*   gsrv, gst  the indexes of the server and of its station               *)
(*   bufrs      the set bufrs                                              *)
(*   bufr_name  self.bufr_name, bufr_unit  self.bufr_unit                  *)
(*   gtaken     history: for each server, the codes its stations take      *)
(*   gkept      history: the <<server, code>> of each definition kept      *)
(***************************************************************************)
VARIABLES gpc, gsrv, gst, bufrs, bufr_name, bufr_unit, gtaken, gkept

typVars == <<gpc, gsrv, gst, bufrs, bufr_name, bufr_unit, gtaken, gkept>>

callVars == <<fmtVars, typVars>>

vars == <<measVars, winVars, scanVars, callVars>>

NoRequest == [kind |-> "none", body |-> <<>>]

MeasStart ==
    /\ mpc = "fetch"
    /\ mpos = 1
    /\ net = NoRequest
    /\ resp = <<>>
    /\ ri = 1
    /\ ready = EmptyDict
    /\ meas = EmptyDict
    /\ mexc = "none"
    /\ arrived = <<>>
    /\ mfailed = {}

\* resp = get_json(serv_addr, 'get', {...})
MeasFetch ==
    /\ mpc = "fetch"
    /\ \E o \in Outcomes(MaxRecords - Len(arrived)) :
          LET g == get_json(o)
          IN  /\ net' = o
              /\ mfailed' = IF o.kind \in FailureKinds
                            THEN mfailed \cup {mpos} ELSE mfailed
              /\ IF g.exc # "none"
                 THEN /\ mpc' = "raised"
                      /\ mexc' = g.exc
                      /\ UNCHANGED <<resp, ri>>
                 ELSE /\ mpc' = "rows"
                      /\ resp' = g.val
                      /\ ri' = 1
                      /\ UNCHANGED mexc
    /\ UNCHANGED <<mpos, ready, meas, arrived>>
    /\ UNCHANGED <<winVars, scanVars, callVars>>

\* One iteration of `for r in resp`.
MeasRow ==
    /\ mpc = "rows"
    /\ ri <= Len(resp)
    /\ LET station == Visits[mpos].station
           st == ProcessRecord([ready |-> ready, meas |-> meas, exc |-> "none"],
                               station, resp[ri])
       IN  /\ ready' = st.ready
           /\ meas' = st.meas
           /\ mexc' = st.exc
           /\ arrived' = Append(arrived, [station |-> station, rec |-> resp[ri]])
           /\ IF st.exc # "none"
              THEN mpc' = "raised" /\ UNCHANGED ri
              ELSE mpc' = "rows" /\ ri' = ri + 1
    /\ UNCHANGED <<mpos, net, resp, mfailed>>
    /\ UNCHANGED <<winVars, scanVars, callVars>>

\* The response is exhausted: the next station, the next server, or return.
MeasNextStation ==
    /\ mpc = "rows"
    /\ ri > Len(resp)
    /\ mpos' = mpos + 1
    /\ mpc' = IF mpos + 1 > Len(Visits) THEN "done" ELSE "fetch"
    /\ UNCHANGED <<net, resp, ri, ready, meas, mexc, arrived, mfailed>>
    /\ UNCHANGED <<winVars, scanVars, callVars>>

(***************************************************************************)
(* get_terms: term discovery.                                              *)
(***************************************************************************)
MaxTerm == 2
MaxBatch == 2
MaxPages == 2

\* A row of a 'get' page as get_terms reads it; point_at 0 is a falsy term.
TermRows == [id : 1..MaxId, point_at : 0..MaxTerm]

TermOutcomes(n) ==
    { [kind |-> "ok", body |-> b] : b \in SeqsUpTo(TermRows, n) }
      \cup { [kind |-> k, body |-> <<>>] : k \in FailureKinds }

\* The body of `for row in resp`: sc is [tset, last_id].
ScanRow(sc, row) ==
    [tset |-> sc.tset \cup {row.point_at}, last_id |-> row.id]

\* The loop over the rows of a response.
RECURSIVE ScanBatch(_, _)
ScanBatch(sc, batch) ==
    IF batch = <<>> THEN sc
    ELSE ScanBatch(ScanRow(sc, batch[1]), Tail(batch))

\* The responses to a page request of a scan that is followed row by row:
\* a failure, or a body of up to n rows, whose contents are drawn when the
\* loop reads them.
PageOutcomes(n) ==
    { [kind |-> "ok", body |-> [i \in 1..k |-> "row"]] : k \in 0..n }
      \cup { [kind |-> k, body |-> <<>>] : k \in FailureKinds }

\* The scan goes on after an empty response.
EndsScan_Never(r) == FALSE

\* `if not resp: break`
EndsScan(r) == r = <<>>

\* sorted(filter(bool, ts), reverse=True)
RECURSIVE SortedDesc(_)
SortedDesc(ts) ==
    IF ts = {} THEN <<>>
    ELSE LET m == CHOOSE x \in ts : \A y \in ts : y <= x
         IN  <<m>> \o SortedDesc(ts \ {m})

Truthy(ts) == {t \in ts : t # 0}

\* sorted(..., reverse=True) without filter(bool, ...)
SetTermsList_NoFilter(ts) == SortedDesc(ts)

SetTermsList(ts) == SortedDesc(Truthy(ts))

ScanStart ==
    /\ tsrv = 1
    /\ last_id = 0
    /\ tset = {}
    /\ tpage = 0
    /\ tresp = 0
    /\ tseen = {}
    /\ treq = [s \in 1..Len(SERVERS) |-> 0]
    /\ tclosed = {}
    /\ tmax = 0
    /\ tsent = 0

\* One iteration of `while True` in get_terms up to the loop over the
\* rows: a request to server tsrv with lastid = last_id, and the test of
\* its response.  A server answers at most MaxPages non-empty pages in a
\* scan.
TermsRequest ==
    /\ gui = "cleared"
    /\ tsrv <= Len(SERVERS)
    /\ tresp = 0
    /\ \E o \in PageOutcomes(IF tpage < MaxPages THEN MaxBatch ELSE 0) :
          LET r == get_json(o).val
          IN  /\ treq' = [treq EXCEPT ![tsrv] = @ + 1]
              /\ tclosed' = IF o.kind # "ok" \/ o.body = <<>>
                            THEN tclosed \cup {tsrv} ELSE tclosed
              /\ IF EndsScan(r)
                 THEN /\ tsrv' = tsrv + 1
                      /\ last_id' = 0
                      /\ tpage' = 0
                      /\ tsent' = 0
                      /\ UNCHANGED tresp
                 ELSE /\ tresp' = Len(r)
                      /\ tpage' = tpage + 1
                      /\ tsent' = last_id
                      /\ UNCHANGED <<tsrv, last_id>>
    /\ tmax' = 0
    /\ UNCHANGED <<tset, tseen>>
    /\ UNCHANGED <<measVars, winVars, callVars>>

\* One iteration of `for row in resp`.
TermsRow ==
    /\ gui = "cleared"
    /\ tresp > 0
    /\ \E row \in TermRows :
          LET sc == ScanRow([tset |-> tset, last_id |-> last_id], row)
          IN  /\ tset' = sc.tset
              /\ last_id' = sc.last_id
              /\ tseen' = tseen \cup {row.point_at}
              /\ tmax' = Max(tmax, row.id)
    /\ tresp' = tresp - 1
    /\ UNCHANGED <<tsrv, tpage, treq, tclosed, tsent>>
    /\ UNCHANGED <<measVars, winVars, callVars>>

\* get_terms as a whole: pages[i] is what server SERVERS[i] answers, page
\* after page; the scan of a server ends at its first empty answer (the
\* answers after the last given one are empty).
RECURSIVE ScanServer(_, _)
ScanServer(sc, answers) ==
    IF answers = <<>> \/ EndsScan(get_json(answers[1]).val) THEN sc
    ELSE ScanServer(ScanBatch(sc, get_json(answers[1]).val), Tail(answers))

RECURSIVE GetTermsFrom(_, _, _)
GetTermsFrom(i, ts, pages) ==
    IF i > Len(SERVERS) THEN ts
    ELSE GetTermsFrom(i + 1,
                      ScanServer([tset |-> ts, last_id |-> 0], pages[i]).tset,
                      pages)

get_terms(pages) == GetTermsFrom(1, {}, pages)

(***************************************************************************)
(* The table.  update_table_values writes the items row by row: row i is   *)
(* the i-th code of sorted(self.bufr_name), column j the j-th station of   *)
(* sorted(sindex_sname), station identifiers compared as strings.          *)
(***************************************************************************)
RECURSIVE NatDigits(_)
NatDigits(n) ==
    IF n < 10 THEN <<n>> ELSE NatDigits(n \div 10) \o <<n % 10>>

\* s < t for two strings of digits
StrLess(s, t) ==
    \E k \in 1..(Len(s) + 1) :
        /\ \A i \in 1..(k - 1) : i <= Len(t) /\ s[i] = t[i]
        /\ \/ k = Len(s) + 1 /\ Len(t) >= k
           \/ k <= Len(s) /\ k <= Len(t) /\ s[k] < t[k]

RECURSIVE SortedStr(_)
SortedStr(S) ==
    IF S = {} THEN <<>>
    ELSE LET m == CHOOSE x \in S :
                    \A y \in S \ {x} : StrLess(NatDigits(x), NatDigits(y))
         IN  <<m>> \o SortedStr(S \ {m})

\* sorted(self.bufr_name): the catalog holds every code of the model.
SortedCodes == <<"12001">>

ColStations == SortedStr(Stations)

NCols == Len(ColStations)

\* (i for v in server_stations.values() for i in v), from server n on
RECURSIVE ConfigStations(_)
ConfigStations(n) ==
    IF n > Len(SERVERS) THEN <<>>
    ELSE server_stations[SERVERS[n]] \o ConfigStations(n + 1)

\* sorted(..., key=int): a stable sort by the number the identifier denotes
RECURSIVE SortedInt(_)
SortedInt(seq) ==
    IF seq = <<>> THEN <<>>
    ELSE LET rest == SortedInt(Tail(seq))
             x == Head(seq)
             k == Cardinality({i \in 1..Len(rest) : rest[i] < x})
         IN  SubSeq(rest, 1, k) \o <<x>> \o SubSeq(rest, k + 1, Len(rest))

\* set_headers: the station whose name is the label of each column.
HeaderStations == SortedInt(ConfigStations(1))

NCells == Len(SortedCodes) * NCols

\* The c-th item written by update_table_values: its row, column and key.
TableCell(c) ==
    LET i == (c - 1) \div NCols
        j == (c - 1) % NCols
    IN  [i |-> i, j |-> j, key |-> <<SortedCodes[i + 1], ColStations[j + 1]>>]

\* No item set yet.
NoItem == ""

\* meas_for_table[bufr][station], or '---' on KeyError
CellText(m, key) == IF key \in DOMAIN m THEN m[key] ELSE "---"

Render(m) == [c \in 1..NCells |-> CellText(m, TableCell(c).key)]

(***************************************************************************)
(* Workers.  A worker is [id, pc, tl, meas, wi]: pc is                     *)
(*   "queued"  handed to the pool; update_data not yet at line 421         *)
(*   "index"   self.terms read into tl, currentIndex() not yet called      *)
(*   "write"   get_measurements returned meas; in update_table_values,     *)
(*             about to set item wi                                        *)
(*   "rearm"   the table is written; about to arm the timer (line 425)     *)
(* id names the pass in cellBy.                                            *)
(***************************************************************************)
MaxChains == 2
MaxWindowRows == 1

Chains == Cardinality(workers) + timers

UsedIds == {w.id : w \in workers} \cup {cellBy[c] : c \in 1..NCells}

FreshId == CHOOSE n \in 1..(MaxChains + NCells + 1) :
              /\ n \notin UsedIds
              /\ \A k \in 1..(n - 1) : k \in UsedIds

\* A worker: tl is the list self.terms it read, point the term it passes
\* to get_measurements (0 before that), meas the result, wi the item it is
\* to write next.
NewWorker ==
    [id |-> FreshId, pc |-> "queued", tl |-> <<>>, point |-> 0,
     meas |-> EmptyDict, wi |-> 0]

\* create_worker: worker = Worker(self.update_data); pool.start(worker)
create_worker == workers \cup {NewWorker}

\* What the servers may answer to a request of a pass of the window: rows
\* in kelvin (one value that parses, one that does not), or a failure.
WindowOutcomes ==
    { [kind |-> "ok", body |-> b] :
        b \in SeqsUpTo({r \in Records : r.id = 1 /\ r.unit = "k"}, MaxWindowRows) }
      \cup { [kind |-> "ReadTimeout", body |-> <<>>] }

\* The rows of a pass in arrival order, os[v] being the outcome of the
\* request for Visits[v].
RECURSIVE PassRows(_, _)
PassRows(v, os) ==
    IF v > Len(Visits) THEN <<>>
    ELSE LET r == get_json(os[v]).val
         IN  [k \in 1..Len(r) |-> [station |-> Visits[v].station, rec |-> r[k]]]
             \o PassRows(v + 1, os)

\* get_measurements(point) as a whole.
get_measurements(os) == Reconcile(EmptyPass, PassRows(1, os))

\* Whether self.terms[index] is an element of the list tl and not an
\* IndexError (a negative index counts from the end).
InRange(tl, index) == 0 - Len(tl) <= index /\ index < Len(tl)

\* self.terms[index] for an index in range.
TermAt(tl, index) ==
    IF index >= 0 THEN tl[index + 1] ELSE tl[Len(tl) + index + 1]

\* update_data up to `self.terms`: the label is set and the list read.
WorkerLoadTerms(w) ==
    /\ w.pc = "queued"
    /\ workers' = (workers \ {w}) \cup {[w EXCEPT !.pc = "index", !.tl = terms]}
    /\ aborted' = FALSE
    /\ UNCHANGED <<terms, boxItems, boxIndex, connected, gui, timers, table, cellBy>>
    /\ UNCHANGED <<measVars, scanVars, callVars>>

\* self.terms[self.term_box.currentIndex()] and get_measurements of it:
\* IndexError returns from update_data, another exception leaves it (run
\* reports it); neither arms the timer.
WorkerFetch(w) ==
    /\ w.pc = "index"
    /\ IF ~InRange(w.tl, boxIndex)
       THEN /\ workers' = workers \ {w}
            /\ aborted' = TRUE
       ELSE \E os \in [1..Len(Visits) -> WindowOutcomes] :
               LET st == get_measurements(os)
               IN  /\ workers' =
                        IF st.exc # "none" THEN workers \ {w}
                        ELSE (workers \ {w}) \cup
                               {[w EXCEPT !.pc = "write", !.tl = <<>>,
                                          !.point = TermAt(w.tl, boxIndex),
                                          !.meas = st.meas, !.wi = 1]}
                   /\ UNCHANGED aborted
    /\ UNCHANGED <<terms, boxItems, boxIndex, connected, gui, timers, table, cellBy>>
    /\ UNCHANGED <<measVars, scanVars, callVars>>

\* One self.table.setItem(i, j, item) of update_table_values.
WorkerWrite(w) ==
    /\ w.pc = "write"
    /\ table' = [table EXCEPT ![w.wi] = CellText(w.meas, TableCell(w.wi).key)]
    /\ cellBy' = [cellBy EXCEPT ![w.wi] = w.id]
    /\ workers' = (workers \ {w}) \cup
                    {IF w.wi < NCells THEN [w EXCEPT !.wi = w.wi + 1]
                     ELSE [w EXCEPT !.pc = "rearm", !.meas = EmptyDict, !.wi = 0]}
    /\ UNCHANGED <<terms, boxItems, boxIndex, connected, gui, timers, aborted>>
    /\ UNCHANGED <<measVars, scanVars, callVars>>

\* The pass arms its follow-up twice.
WorkerRearm_Twice(w) ==
    /\ w.pc = "rearm"
    /\ timers' = timers + 2
    /\ workers' = workers \ {w}
    /\ UNCHANGED <<terms, boxItems, boxIndex, connected, gui, table, cellBy, aborted>>
    /\ UNCHANGED <<measVars, scanVars, callVars>>

\* QtCore.QTimer.singleShot(self.timer_interval, self.create_worker), and
\* the end of update_data and of run.
WorkerRearm(w) ==
    /\ w.pc = "rearm"
    /\ timers' = timers + 1
    /\ workers' = workers \ {w}
    /\ UNCHANGED <<terms, boxItems, boxIndex, connected, gui, table, cellBy, aborted>>
    /\ UNCHANGED <<measVars, scanVars, callVars>>

\* An armed timer fires in the event loop and calls create_worker.
TimerFire ==
    /\ gui = "idle"
    /\ timers > 0
    /\ timers' = timers - 1
    /\ workers' = create_worker
    /\ UNCHANGED <<terms, boxItems, boxIndex, connected, gui, table, cellBy, aborted>>
    /\ UNCHANGED <<measVars, scanVars, callVars>>

\* The user picks another item of the term box: currentIndexChanged calls
\* create_worker.
UserSelect(i) ==
    /\ gui = "idle"
    /\ i # boxIndex
    /\ connected => Chains < MaxChains
    /\ boxIndex' = i
    /\ workers' = IF connected THEN create_worker ELSE workers
    /\ UNCHANGED <<terms, boxItems, connected, gui, timers, table, cellBy, aborted>>
    /\ UNCHANGED <<measVars, scanVars, callVars>>

\* set_terms (the button, F5, or __init__) up to the call of get_terms:
\* self.term_box.clear() makes the current index -1, and a change of the
\* index calls create_worker.
SetTermsClear ==
    /\ gui = "idle"
    /\ (connected /\ boxIndex # -1) => Chains < MaxChains
    /\ boxItems' = <<>>
    /\ boxIndex' = -1
    /\ workers' = IF connected /\ boxIndex # -1 THEN create_worker ELSE workers
    /\ gui' = "cleared"
    /\ tsrv' = 1
    /\ last_id' = 0
    /\ tset' = {}
    /\ tpage' = 0
    /\ tresp' = 0
    /\ tseen' = {}
    /\ treq' = [s \in 1..Len(SERVERS) |-> 0]
    /\ tclosed' = {}
    /\ tmax' = 0
    /\ tsent' = 0
    /\ UNCHANGED <<terms, connected, timers, table, cellBy, aborted>>
    /\ UNCHANGED <<measVars, callVars>>

\* self.terms = sorted(filter(bool, get_terms()), reverse=True), get_terms
\* having returned tset.
SetTermsAssign ==
    /\ gui = "cleared"
    /\ tsrv > Len(SERVERS)
    /\ tresp = 0
    /\ terms' = SetTermsList(tset)
    /\ gui' = IF terms' = <<>> THEN "idle" ELSE "adding"
    /\ UNCHANGED <<boxItems, boxIndex, connected, workers, timers, table, cellBy, aborted>>
    /\ UNCHANGED <<measVars, scanVars, callVars>>

\* What get_terms may return to a refresh of the window: each server
\* answers at most one page of one row, or fails.
WindowScans ==
    { get_terms(pages) :
        pages \in [1..Len(SERVERS) -> SeqsUpTo(TermOutcomes(1), 1)] }

\* The same with get_terms as one step.
SetTermsScan ==
    /\ gui = "cleared"
    /\ \E tl \in {SetTermsList(ts) : ts \in WindowScans} : terms' = tl
    /\ gui' = IF terms' = <<>> THEN "idle" ELSE "adding"
    /\ UNCHANGED <<boxItems, boxIndex, connected, workers, timers, table, cellBy, aborted>>
    /\ UNCHANGED <<measVars, scanVars, callVars>>

\* self.term_box.addItem(...) for the next term: the first item of an empty
\* box becomes the current one.
SetTermsAddItem ==
    /\ gui = "adding"
    /\ (connected /\ boxItems = <<>>) => Chains < MaxChains
    /\ boxItems' = Append(boxItems, terms[Len(boxItems) + 1])
    /\ boxIndex' = IF boxItems = <<>> THEN 0 ELSE boxIndex
    /\ workers' = IF connected /\ boxItems = <<>> THEN create_worker ELSE workers
    /\ gui' = IF Len(boxItems) + 1 = Len(terms) THEN "idle" ELSE "adding"
    /\ UNCHANGED <<terms, connected, timers, table, cellBy, aborted>>
    /\ UNCHANGED <<measVars, scanVars, callVars>>

(***************************************************************************)
(* The specifications.                                                     *)
(***************************************************************************)
\* The window before set_terms has run: no terms, an empty box, nothing
\* connected, no worker, no timer.
WinBlank ==
    /\ terms = <<>>
    /\ boxItems = <<>>
    /\ boxIndex = -1
    /\ connected = FALSE
    /\ gui = "idle"
    /\ workers = {}
    /\ timers = 0
    /\ table = [c \in 1..NCells |-> NoItem]
    /\ cellBy = [c \in 1..NCells |-> 0]
    /\ aborted = FALSE

(***************************************************************************)
(* format_unit called on its own, on every argument of a bounded set: the  *)
(* units of convert_table and units it does not hold, the precisions       *)
(* get_measurements passes (None, 1) and others.                           *)
(***************************************************************************)
MaxCoef == 30
MaxScale == 2
MaxPrec == 2

\* Decimal('300.00')
Kelvin300 == Decimal(<<"3", "0", "0", ".", "0", "0">>)

FmtDecimals ==
    {Kelvin300} \cup [sign : BOOLEAN, coef : 0..MaxCoef, scale : 0..MaxScale]

FmtValues == {Num(d) : d \in FmtDecimals} \cup {NoDataValue}

\* (base, target): entries of convert_table, and pairs it has no entry for.
FmtPairs ==
    ConvEntries \cup {<<"C", "C">>, <<"m", "C">>, <<"k", "m_ru">>}

FmtPrecs == {NoPrec} \cup 0..MaxPrec

FmtArgs == [value : FmtValues, pair : FmtPairs, prec : FmtPrecs]

NoCall == [exc |-> "none", text |-> ""]

FmtIdle ==
    /\ fpc = "idle"
    /\ fin = [value |-> NoDataValue, pair |-> <<"", "">>, prec |-> NoPrec]
    /\ fout = NoCall

\* The call and its return.
FormatCall ==
    /\ fpc = "call"
    /\ fout' = format_unit(fin.value, fin.pair[1], fin.pair[2], fin.prec)
    /\ fpc' = "ret"
    /\ UNCHANGED fin
    /\ UNCHANGED <<measVars, winVars, scanVars, typVars>>

(***************************************************************************)
(* get_measurements_types, a request at a time.                            *)
(***************************************************************************)
MaxTaking == 2
MaxDefs == 2

TypeCodes == {"12001", "12101"}

\* A row of station_taking.json as the function reads it.
TakingRows == [code : TypeCodes]

\* A row of measurement.json as the function reads it.
DefRows == [bufrcode : TypeCodes, caption : {"T"}, unit : {"k", "m/s"}]

\* The outcomes of a request whose body has up to n rows of S.
RowsOutcomes(S, n) ==
    { [kind |-> "ok", body |-> b] : b \in SeqsUpTo(S, n) }
      \cup { [kind |-> k, body |-> <<>>] : k \in FailureKinds }

RowCodes(rows) == {rows[i].code : i \in 1..Len(rows)}

\* The loop over the rows of measurement.json: cat is [name, unit, kept],
\* kept being the codes of the rows that passed `if bufr not in bufrs`.
RECURSIVE KeepDefs(_, _, _)
KeepDefs(cat, used, rows) ==
    IF rows = <<>> THEN cat
    ELSE LET row == rows[1]
             bufr == row.bufrcode
         IN  IF bufr \notin used THEN KeepDefs(cat, used, Tail(rows))
             ELSE KeepDefs([name |-> Put(cat.name, bufr, row.caption),
                            unit |-> Put(cat.unit, bufr, wanted_unit(row.unit)),
                            kept |-> cat.kept \cup {bufr}],
                           used, Tail(rows))

TypIdle ==
    /\ gpc = "idle"
    /\ gsrv = 1
    /\ gst = 1
    /\ bufrs = {}
    /\ bufr_name = EmptyDict
    /\ bufr_unit = EmptyDict
    /\ gtaken = [s \in 1..Len(SERVERS) |-> {}]
    /\ gkept = {}

\* for row in get_json(serv_addr, 'station_taking.json', ...): bufrs.add
TypesTaking ==
    /\ gpc = "taking"
    /\ \E o \in RowsOutcomes(TakingRows, MaxTaking) :
          LET g == get_json(o)
          IN  IF g.exc # "none"
              THEN /\ gpc' = "raised"
                   /\ UNCHANGED <<gst, bufrs, gtaken>>
              ELSE /\ bufrs' = bufrs \cup RowCodes(g.val)
                   /\ gtaken' = [gtaken EXCEPT ![gsrv] = @ \cup RowCodes(g.val)]
                   /\ IF gst < Len(server_stations[SERVERS[gsrv]])
                      THEN gst' = gst + 1 /\ gpc' = "taking"
                      ELSE gst' = 1 /\ gpc' = "defs"
    /\ UNCHANGED <<gsrv, bufr_name, bufr_unit, gkept>>
    /\ UNCHANGED <<measVars, winVars, scanVars, fmtVars>>

\* for row in get_json(serv_addr, 'measurement.json'): ...
TypesDefs ==
    /\ gpc = "defs"
    /\ \E o \in RowsOutcomes(DefRows, MaxDefs) :
          LET g == get_json(o)
              cat == KeepDefs([name |-> bufr_name, unit |-> bufr_unit, kept |-> {}],
                              bufrs, g.val)
          IN  IF g.exc # "none"
              THEN /\ gpc' = "raised"
                   /\ UNCHANGED <<gsrv, bufr_name, bufr_unit, gkept>>
              ELSE /\ bufr_name' = cat.name
                   /\ bufr_unit' = cat.unit
                   /\ gkept' = gkept \cup {<<gsrv, c>> : c \in cat.kept}
                   /\ gsrv' = gsrv + 1
                   /\ gpc' = IF gsrv < Len(SERVERS) THEN "taking" ELSE "done"
    /\ UNCHANGED <<gst, bufrs, gtaken>>
    /\ UNCHANGED <<measVars, winVars, scanVars, fmtVars>>

TypesInit ==
    /\ MeasStart /\ WinBlank /\ ScanStart /\ FmtIdle
    /\ gpc = "taking"
    /\ gsrv = 1
    /\ gst = 1
    /\ bufrs = {}
    /\ bufr_name = EmptyDict
    /\ bufr_unit = EmptyDict
    /\ gtaken = [s \in 1..Len(SERVERS) |-> {}]
    /\ gkept = {}

TypesNext == TypesTaking \/ TypesDefs

SpecTypes == TypesInit /\ [][TypesNext]_vars

\* Neither format_unit nor get_measurements_types is being called.
CallsIdle == FmtIdle /\ TypIdle

(***************************************************************************)
(* format_unit on its own, as a specification.                             *)
(***************************************************************************)
FmtInit ==
    /\ MeasStart /\ WinBlank /\ ScanStart /\ TypIdle
    /\ fpc = "call"
    /\ fin \in FmtArgs
    /\ fout = NoCall

FmtNext == FormatCall

SpecFmt == FmtInit /\ [][FmtNext]_vars

\* One call of get_measurements.
MeasInit == MeasStart /\ WinBlank /\ ScanStart /\ CallsIdle

MeasNext == MeasFetch \/ MeasRow \/ MeasNextStation

SpecMeas == MeasInit /\ [][MeasNext]_vars

\* set_terms as __init__ calls it (line 288, before currentIndexChanged is
\* connected), and again.
TermsInit == MeasStart /\ WinBlank /\ ScanStart /\ CallsIdle

TermsNext ==
    \/ SetTermsClear
    \/ TermsRequest
    \/ TermsRow
    \/ SetTermsAssign
    \/ SetTermsAddItem

SpecTerms == TermsInit /\ [][TermsNext]_vars

FairSpecTerms ==
    SpecTerms /\ WF_vars(TermsRequest) /\ WF_vars(TermsRow)
              /\ WF_vars(SetTermsAssign) /\ WF_vars(SetTermsAddItem)

\* The window after __init__: the terms set, the signal connected, the
\* start-up timer armed (lines 288-290).
Init ==
    /\ MeasStart
    /\ ScanStart
    /\ CallsIdle
    /\ \E tl \in {SetTermsList(ts) : ts \in WindowScans} : terms = tl
    /\ boxItems = terms
    /\ boxIndex = IF terms = <<>> THEN -1 ELSE 0
    /\ connected = TRUE
    /\ gui = "idle"
    /\ workers = {}
    /\ timers = 1
    /\ table = [c \in 1..NCells |-> NoItem]
    /\ cellBy = [c \in 1..NCells |-> 0]
    /\ aborted = FALSE

Next ==
    \/ TimerFire
    \/ \E i \in 0..(Len(boxItems) - 1) : UserSelect(i)
    \/ SetTermsClear
    \/ SetTermsScan
    \/ SetTermsAddItem
    \/ \E w \in workers : WorkerLoadTerms(w)
    \/ \E w \in workers : WorkerFetch(w)
    \/ \E w \in workers : WorkerWrite(w)
    \/ \E w \in workers : WorkerRearm(w)

Spec == Init /\ [][Next]_vars

FairSpec ==
    /\ Spec
    /\ WF_vars(TimerFire)
    /\ WF_vars(SetTermsScan)
    /\ WF_vars(SetTermsAddItem)
    /\ WF_vars(\E w \in workers : WorkerLoadTerms(w))
    /\ WF_vars(\E w \in workers : WorkerFetch(w))
    /\ WF_vars(\E w \in workers : WorkerWrite(w))
    /\ WF_vars(\E w \in workers : WorkerRearm(w))

(***************************************************************************)
(* Properties of one call of get_measurements (SpecMeas).                  *)
(***************************************************************************)
Keys == Codes \X Stations

\* The rows that arrived for a key, in arrival order.
KeyRows(key) ==
    SelectSeq(arrived, LAMBDA a : <<a.rec.code, a.station>> = key)

DistinctIds(rows) ==
    \A i, j \in 1..Len(rows) : i # j => rows[i].rec.id # rows[j].rec.id

MaxIdRow(rows) ==
    rows[CHOOSE i \in 1..Len(rows) :
            \A j \in 1..Len(rows) : rows[j].rec.id <= rows[i].rec.id]

\* C1: after a pass, for every key whose records of the pass form a
\* non-empty set with pairwise distinct ids, the cell of the key is the
\* formatted payload of the record with the maximum id.
C1_MaxIdWins ==
    mpc = "done" =>
        \A key \in Keys :
            LET rows == KeyRows(key)
                top  == RecordText(MaxIdRow(rows).rec)
            IN  (rows # <<>> /\ DistinctIds(rows) /\ top.exc = "none") =>
                    /\ key \in DOMAIN meas
                    /\ meas[key] = top.text

LastArrived == arrived[Len(arrived)]

\* C3: a record whose value does not parse as a number never makes the
\* pass raise; when the record is taken as the key's winner its cell is the
\* "no data" marker, and the pass goes on.
C3_BadValueNeverRaises ==
    (arrived # <<>> /\ ~IsDecimalSyntax(LastArrived.rec.value)) =>
        LET key == <<LastArrived.rec.code, LastArrived.station>>
        IN  /\ mpc # "raised"
            /\ (~Skipped(ready, key, LastArrived.rec.id) => 
                    key \in DOMAIN meas /\ meas[key] = NoData)

\* C4: a refused connection, a timeout and a body that is not JSON each
\* make get_json return the empty list without raising to its caller; a
\* decoded body is returned as it is.
C4_GetJsonFailSoft ==
    /\ net.kind \in FailureKinds =>
          (mexc \notin FailureKinds /\ resp = <<>>)
    /\ net.kind = "ok" => resp = net.body

\* A request of a pass failed after an earlier one had returned records, and
\* the pass went on to its end.
C4_Witness ==
    /\ net.kind \in {"ConnectTimeout", "ReadTimeout"}
    /\ mpc = "done"
    /\ arrived # <<>>

Permute(rows, p) == [i \in 1..Len(rows) |-> rows[p[i]]]

\* C7: the cell of a key is the same for every arrival order of the records
\* the pass received for that key, records with equal ids included (the
\* orders compared are those in which the pass produces a cell).
C7_OrderIndependent ==
    mpc = "done" =>
        \A key \in Keys :
            LET rows == KeyRows(key)
            IN  rows # <<>> =>
                  \A p \in Permutations(1..Len(rows)) :
                      LET st == Reconcile(EmptyPass, Permute(rows, p))
                      IN  st.exc = "none" => st.meas[key] = meas[key]


(***************************************************************************)
(* Properties of term discovery (SpecTerms, FairSpecTerms).                *)
(***************************************************************************)
TermSet == {terms[i] : i \in 1..Len(terms)}

\* C8: the term list a refresh produces holds exactly the point_at values
\* the servers returned before their first empty page, without the falsy
\* ones, without duplicates, in strictly descending order.
C8_TermList ==
    gui = "idle" =>
        /\ TermSet = {t \in tseen : t # 0}
        /\ \A i, j \in 1..Len(terms) : i < j => terms[i] > terms[j]

\* A refresh over two servers that both returned rows, a falsy term among
\* them, ended with two terms.
C8_Witness ==
    /\ gui = "idle"
    /\ terms = <<2, 1>>
    /\ 0 \in tseen
    /\ \A s \in 1..Len(SERVERS) : treq[s] >= 2

\* C9: the scan of a server stops at its first empty or failed response:
\* no further request goes to that server, the scan moves to the next
\* server; and, each server answering an empty page in the end, term
\* discovery terminates.
C9_ScanTerminates ==
    /\ [][ /\ \A s \in tclosed \cap tclosed' : treq'[s] = treq[s]
           /\ \A s \in tclosed' \ tclosed : tsrv' = s + 1 ]_vars
    /\ (gui = "cleared") ~> (gui # "cleared")

\* A scan ended after both servers had answered rows and then an empty page.
C9_Witness ==
    /\ gui = "idle"
    /\ tclosed = {1, 2}
    /\ \A s \in 1..Len(SERVERS) : treq[s] >= 2
    /\ terms # <<>>

(***************************************************************************)
(* Properties of the window (Spec, FairSpec).                              *)
(***************************************************************************)
\* The workers that are executing update_data.
InFlight == {w \in workers : w.pc # "queued"}

\* C2: at most one pass is in flight at any time.
C2_SingleFlight == Cardinality(InFlight) <= 1

\* C5: after a pass has aborted on an index out of range, a further pass
\* is started without any action of the user.
C5_AbortRetried == aborted ~> ~aborted

\* C6: in every state the items of the table that a pass has written all
\* come from one pass (cellBy 0 marks an item no pass has written yet).
C6_AtomicMatrix ==
    \A c, d \in 1..NCells :
        (cellBy[c] # 0 /\ cellBy[d] # 0) => cellBy[c] = cellBy[d]

\* C10: when a pass has written its last item, the table holds, item by
\* item, what that pass fetched: the placeholder where it fetched nothing,
\* and no item of another pass.
C10_RebuiltEachPass ==
    [][ \A w \in workers :
          (WorkerWrite(w) /\ w.wi = NCells) => table' = Render(w.meas) ]_vars

(***************************************************************************)
(* Properties of format_unit (SpecFmt).                                    *)
(***************************************************************************)
\* C11: 300.00 from 'k' to 'C' with precision 1 gives the string 26.9.
C11_KelvinToCelsius ==
    (fpc = "ret" /\ fin.value = Num(Kelvin300) /\ fin.pair = <<"k", "C">>
       /\ fin.prec = 1)
        => fout = [exc |-> "none", text |-> "26.9"]

\* r is x rounded to p fractional digits: r has p fractional digits, the
\* sign of x, and is at most half a unit of its last digit away from x.
IsRounded(r, x, p) ==
    /\ r.scale = p
    /\ r.sign = x.sign
    /\ LET a == r.coef * 10^x.scale
           b == x.coef * 10^p
       IN  2 * (IF a >= b THEN a - b ELSE b - a) <= 10^x.scale

\* The decimals of p fractional digits next to x.
Neighbours(x, p) ==
    LET q == (x.coef * 10^p) \div 10^x.scale
    IN  {[sign |-> x.sign, coef |-> c, scale |-> p] : c \in {q, q + 1}}

\* C12: for a number and a pair of units that convert_table has no entry
\* for, or whose entry is the identity, format_unit without precision
\* gives the number as it is, and with a precision the number rounded to
\* that many fractional digits.
C12_IdentityPassThrough ==
    (fpc = "ret" /\ fin.value.isnum
       /\ (fin.pair \notin ConvEntries \/ fin.pair \in IdentityEntries))
        => /\ fout.exc = "none"
           /\ fin.prec = NoPrec => fout.text = DecimalStr(fin.value.dec)
           /\ fin.prec # NoPrec =>
                 \E r \in Neighbours(fin.value.dec, fin.prec) :
                     /\ IsRounded(r, fin.value.dec, fin.prec)
                     /\ fout.text = DecimalStr(r)

\* 0.25 under the identity entry of 'm' with precision 1: a tie, given 0.2.
C12_Witness ==
    /\ fpc = "ret"
    /\ fin.pair = <<"m", "m_ru">>
    /\ fin.prec = 1
    /\ fin.value = Num([sign |-> FALSE, coef |-> 25, scale |-> 2])
    /\ fout.text = "0.2"


(***************************************************************************)
(* Further properties of get_measurements (SpecMeas).                      *)
(***************************************************************************)
\* C13: while no server has returned a record to the pass (empty answers
\* and failed requests only), the pass has not raised and its matrix is
\* empty: that is what it returns.
C13_EmptyTerm ==
    arrived = <<>> => (mpc # "raised" /\ meas = EmptyDict)

\* A pass that ended with no record, its last request having failed.
C13_Witness ==
    /\ mpc = "done"
    /\ arrived = <<>>
    /\ net.kind \in FailureKinds
    /\ meas = EmptyDict

\* C15: the first record a pass processes for a key is taken as the key's
\* winner whatever its id (its id is stored and, the pass going on, its
\* text is the cell); and in the result of a pass every key that received
\* a record has a cell.
C15_FirstRecordAccepted ==
    /\ arrived # <<>> =>
          LET key == <<LastArrived.rec.code, LastArrived.station>>
          IN  Len(KeyRows(key)) = 1 =>
                /\ key \in DOMAIN ready
                /\ ready[key] = LastArrived.rec.id
                /\ mpc # "raised" =>
                      /\ key \in DOMAIN meas
                      /\ meas[key] = RecordText(LastArrived.rec).text
    /\ mpc = "done" =>
          \A key \in Keys : KeyRows(key) # <<>> => key \in DOMAIN meas

\* A pass that ended, its first record having had the greatest id and
\* another record having come after it.
C15_Witness ==
    /\ mpc = "done"
    /\ Len(arrived) >= 2
    /\ arrived[1].rec.id = MaxId
    /\ <<arrived[1].rec.code, arrived[1].station>> \in DOMAIN meas

\* C17: a request that fails does to the pass what an empty array does:
\* no cell and no stored id changes, nothing is raised, and the pass goes on
\* to the next station or server; so a pass that ends has made the request
\* of every station, and its cells are those of the records that arrived,
\* as if each failed request had answered an empty array.
C17_FailureIsLocal ==
    [][ /\ (mpc = "fetch" /\ net'.kind \in FailureKinds) =>
              /\ mpc' = "rows" /\ resp' = <<>> /\ ri' = 1
              /\ mpos' = mpos
              /\ ready' = ready /\ meas' = meas /\ mexc' = mexc
        /\ mpc' = "done" =>
              /\ mpos' = Len(Visits) + 1
              /\ meas' = Reconcile(EmptyPass, arrived').meas ]_vars

\* The request for the first station failed, and the pass ended with a cell
\* for a later station.
C17_Witness ==
    /\ mpc = "done"
    /\ 1 \in mfailed
    /\ \E key \in DOMAIN meas : key[2] # Visits[1].station

(***************************************************************************)
(* Further properties of term discovery (SpecTerms).                       *)
(***************************************************************************)
\* C14: when a non-empty batch has been read, the lastid of the next
\* request to the server is the greatest id of the batch, whatever the
\* order of its rows, and so is not less than the lastid sent before.
C14_LastIdIsBatchMax ==
    (gui = "cleared" /\ tresp = 0 /\ tmax > 0) =>
        (last_id = tmax /\ last_id >= tsent)

(***************************************************************************)
(* Further properties of the window (Spec).                                *)
(***************************************************************************)
\* The pass w is no longer among the workers after the step.
Ended(w) == \A v \in workers' : v.id # w.id

\* C16: a pass comes to arm its follow-up only by writing the last item of
\* its result; a pass that has done so ends by arming exactly one timer;
\* and a timer is armed by nothing else, so that the follow-up of a pass
\* does not start before the pass has fetched and written its result.
C16_RearmAfterPass ==
    [][ /\ \A w \in workers' :
              (w.pc = "rearm" /\ w \notin workers) =>
                  \E v \in workers :
                      /\ v.id = w.id /\ v.pc = "write" /\ v.wi = NCells
                      /\ cellBy'[NCells] = w.id
        /\ \A w \in workers :
              (w.pc = "rearm" /\ Ended(w)) => timers' = timers + 1
        /\ timers' > timers =>
              /\ timers' = timers + 1
              /\ \E w \in workers : w.pc = "rearm" /\ Ended(w) ]_vars

\* A pass has written its result and armed its follow-up, no pass running.
C16_Witness ==
    /\ timers = 1
    /\ workers = {}
    /\ \A c \in 1..NCells : cellBy[c] # 0
    /\ ~aborted

\* C19: the column into which a pass writes the values of a station is
\* the column whose header carries the name of that station.
C19_ColumnsAgree ==
    \A c \in 1..NCells :
        cellBy[c] # 0 =>
            /\ TableCell(c).j + 1 <= Len(HeaderStations)
            /\ HeaderStations[TableCell(c).j + 1] = TableCell(c).key[2]

\* C20: a pass that goes on to write the table has read a current index
\* that selects an item of the term box, and reconciles the term of that
\* item; a pass that reads the index -1 (nothing selected, as after a
\* refresh has cleared the box) ends there and leaves the table as it is.
C20_SelectedTermOnly ==
    [][ \A w \in workers :
          (w.pc = "index" /\ w \notin workers') =>
              /\ \A v \in workers' :
                    (v.id = w.id /\ v.pc = "write") =>
                        /\ boxIndex >= 0
                        /\ boxIndex < Len(boxItems)
                        /\ v.point = boxItems[boxIndex + 1]
              /\ boxIndex = -1 => (Ended(w) /\ table' = table) ]_vars

(***************************************************************************)
(* Properties of get_measurements_types (SpecTypes).                       *)
(***************************************************************************)
\* C18: a definition reported by a server is kept only if one of the
\* stations of that same server takes its code.
C18_KeptOnlyIfOwnStationTakes ==
    \A k \in gkept : k[2] \in gtaken[k[1]]

=============================================================================
